---- MODULE Spec2Model ----
(***************************************************************************)
(* A model of the bug tracker's presentation layer:                        *)
(*   - ErrorBoundary (frontend/components/ErrorBoundary.jsx) mounted as an  *)
(*     outer boundary around a sibling element and a slot that holds either *)
(*     a child component or an inner ErrorBoundary wrapping that child;     *)
(*   - BugForm (the creation form) with its draft, its local validation     *)
(*     error and the onSubmit calls it makes.                               *)
(* SpecBoundary explores the boundary tree, SpecForm explores the form.     *)
(***************************************************************************)
EXTENDS Naturals, Sequences, FiniteSets

VARIABLES
    outer,          \* state of the outer ErrorBoundary: [hasError, error]
    inner,          \* state of the inner ErrorBoundary (meaningful while mounted)
    innerMounted,   \* whether an inner ErrorBoundary instance is mounted
    layout,         \* "direct": the child sits directly under the outer boundary;
                    \* "nested": the child sits under an inner boundary
    child,          \* the child component currently given as children
    screen,         \* the texts in the rendered document
    sink,           \* values the boundaries reported to the observability sink
    caught,         \* which boundary caught what during the last step
    prev,           \* the operation before the last one
    last,           \* the last operation
    form,           \* BugForm draft: [title, description, status]
    formError,      \* BugForm local validation error ('' when none)
    lastCall,       \* arguments of the latest onSubmit call
    callsInStep,    \* number of onSubmit calls the last form operation made
    formLast,       \* the last form operation
    formProps,      \* BugForm props: [loading, error]
    clearedError,   \* the validation error the last form operation cleared ('' if none)
    listProps,      \* BugList props: [loading, error, bugs]
    listView,       \* what BugList rendered: [texts, items]
    listCall,       \* the latest call of onDelete / onStatusChange made from an item
    listLast,       \* the last list operation
    calls,          \* App: the network calls issued and not yet settled, oldest first
    store,          \* the server's records, newest first
    created,        \* number of create requests issued so far
    appLast,        \* the last App step
    removed,        \* ids App removed from its list after a successful delete
    anyFailed,      \* whether any call of App has failed so far
    request,        \* the last request sent to the server directly: [op, id, body]
    reply,          \* the server's response to it: [code, message, body]
    mongoose,       \* what the installed mongoose does where its versions differ
    collection      \* what the collection did for the last request

boundaryVars == <<outer, inner, innerMounted, layout, child, screen, sink, caught, prev, last>>
formVars == <<form, formError, lastCall, callsInStep, formLast, formProps, clearedError>>
listVars == <<listProps, listView, listCall, listLast>>
appVars == <<calls, store, created, appLast, removed, anyFailed>>
storeVars == <<request, reply, mongoose, collection>>
vars == <<boundaryVars, formVars, listVars, appVars, storeVars>>
notBoundary == <<formVars, listVars, appVars, storeVars>>
notForm == <<boundaryVars, listVars, appVars, storeVars>>
notList == <<boundaryVars, formVars, appVars, storeVars>>

(***************************************************************************)
(* Values a component can raise while rendering.  `text` is the message of  *)
(* an Error or of a plain object, the characters of a thrown string, and    *)
(* Undefined where the value has none.                                      *)
(***************************************************************************)
Undefined == "<undefined>"

Null == [kind |-> "null", text |-> Undefined]

Values ==
    { [kind |-> "Error",     text |-> "Test error message"],
      [kind |-> "Error",     text |-> ""],
      [kind |-> "string",    text |-> "String error"],
      [kind |-> "object",    text |-> "Object error"],
      [kind |-> "object",    text |-> Undefined],
      Null,
      [kind |-> "undefined", text |-> Undefined] }

(* The children the tests hand to a boundary: two that render, and one that *)
(* raises each value.                                                       *)
Children ==
    { [throws |-> FALSE, value |-> Null, text |-> "Normal content"],
      [throws |-> FALSE, value |-> Null, text |-> "New content after reset"] }
    \cup { [throws |-> TRUE, value |-> v, text |-> ""] : v \in Values }

Layouts == {"direct", "nested"}

Heading == "Something went wrong."
GenericDescription == "An unexpected error occurred."
TryAgain == "Try Again"
OuterContent == "Outer content"

(* The outcome of rendering a subtree: the texts it produced, or the value  *)
(* it raised.                                                               *)
Rendered(texts) == [threw |-> FALSE, value |-> Null, texts |-> texts]
Raised(v) == [threw |-> TRUE, value |-> v, texts |-> {}]

(* ThrowError / ThrowDifferentErrors / plain elements of the tests.         *)
ChildRender(c) == IF c.throws THEN Raised(c.value) ELSE Rendered({c.text})

(***************************************************************************)
(* ErrorBoundary                                                            *)
(***************************************************************************)
Constructor == [hasError |-> FALSE, error |-> Null]

GetDerivedStateFromErrorDropsValue(error) == [hasError |-> TRUE, error |-> Null]

getDerivedStateFromError(error) == [hasError |-> TRUE, error |-> error]

(* componentDidCatch(error, errorInfo) has an empty body: the sink is left  *)
(* as it was.                                                               *)
componentDidCatch(s, error) == s

handleReset(state) == [hasError |-> FALSE, error |-> Null]

(* error?.message : undefined for null and undefined (optional chaining),   *)
(* undefined for a string primitive, the message field otherwise.           *)
MessageOf(error) ==
    IF error.kind \in {"null", "undefined"} THEN Undefined
    ELSE IF error.kind = "string" THEN Undefined
    ELSE error.text

(* a || b on strings: b when a is undefined or ''.                          *)
OrElse(a, b) == IF a = Undefined \/ a = "" THEN b ELSE a

Description(error) == OrElse(MessageOf(error), GenericDescription)

Fallback(error) == {Heading, Description(error), TryAgain}

RenderShowsChildrenWhenTheyRender(state, children) ==
    IF state.hasError /\ children.threw THEN Rendered(Fallback(state.error)) ELSE children

RenderRethrows(state, children) ==
    IF state.hasError THEN Raised(state.error) ELSE children

render(state, children) ==
    IF state.hasError THEN Rendered(Fallback(state.error)) ELSE children

(***************************************************************************)
(* React's handling of one boundary: render it; when its subtree raised,    *)
(* derive the state from the raised value and render again.  What is still  *)
(* raised after that goes to the parent.                                    *)
(***************************************************************************)
BoundaryLetsThrough(state, children) ==
    [state |-> state, out |-> render(state, children), caught |-> FALSE, value |-> Null]

Boundary(state, children) ==
    LET first == render(state, children) IN
    IF ~first.threw
    THEN [state |-> state, out |-> first, caught |-> FALSE, value |-> Null]
    ELSE LET derived == getDerivedStateFromError(first.value) IN
         [state |-> derived, out |-> render(derived, children),
          caught |-> TRUE, value |-> first.value]

(* The slot under the outer boundary.                                       *)
Slot(i, im, l, c) ==
    IF l = "nested"
    THEN Boundary(IF im THEN i ELSE Constructor, ChildRender(c))
    ELSE [state |-> Constructor, out |-> ChildRender(c), caught |-> FALSE, value |-> Null]

(* <ErrorBoundary><div>Outer content</div>{slot}</ErrorBoundary>            *)
OuterChildren(slot) ==
    IF slot.out.threw THEN slot.out ELSE Rendered({OuterContent} \cup slot.out.texts)

(* One render pass of the whole tree from boundary states o (outer) and i   *)
(* (inner, mounted iff im) with props l and c.  The outer boundary's        *)
(* children are elements: the inner boundary under them exists only while   *)
(* the outer boundary returns them from render.                             *)
Tree(o, i, im, l, c) ==
    LET slot == Slot(i, im, l, c)
        top  == Boundary(o, OuterChildren(slot))
        kept == l = "nested" /\ ~top.state.hasError
    IN [outer |-> top.state,
        inner |-> IF kept THEN slot.state ELSE Constructor,
        innerMounted |-> kept,
        out |-> top.out,
        by |-> IF top.caught THEN "outer"
               ELSE IF kept /\ slot.caught THEN "inner" ELSE "none",
        value |-> IF top.caught THEN top.value
                  ELSE IF kept /\ slot.caught THEN slot.value ELSE Null]

(* What the document shows after a pass; nothing when the root raised.      *)
ScreenOf(out) == IF out.threw THEN {} ELSE out.texts

(* componentDidCatch runs on the boundary that caught, once per catch.      *)
Report(s, t) == IF t.by = "none" THEN s ELSE componentDidCatch(s, t.value)

Commit(t, l, c, op) ==
    /\ outer' = t.outer
    /\ inner' = t.inner
    /\ innerMounted' = t.innerMounted
    /\ layout' = l
    /\ child' = c
    /\ screen' = ScreenOf(t.out)
    /\ sink' = Report(sink, t)
    /\ caught' = [by |-> t.by, value |-> t.value]
    /\ prev' = last
    /\ last' = op

(***************************************************************************)
(* BugForm                                                                 *)
(***************************************************************************)
(* Text is a sequence of characters; Chars has one whitespace character    *)
(* and one that is not.                                                     *)
Chars == {" ", "a"}
Whitespace == {" "}

MaxTitleLen == 2
MaxDescLen == 1

TextsUpTo(n) == UNION { [1..k -> Chars] : k \in 0..n }
Titles == TextsUpTo(MaxTitleLen)
Descriptions == TextsUpTo(MaxDescLen)
Statuses == {"open", "in-progress", "resolved"}

(* String.prototype.trim                                                    *)
RECURSIVE trimStart(_)
trimStart(t) ==
    IF t # <<>> /\ Head(t) \in Whitespace THEN trimStart(Tail(t)) ELSE t

RECURSIVE trimEnd(_)
trimEnd(t) ==
    IF t # <<>> /\ t[Len(t)] \in Whitespace THEN trimEnd(SubSeq(t, 1, Len(t) - 1)) ELSE t

trim(t) == trimEnd(trimStart(t))

initialState == [title |-> <<>>, description |-> <<>>, status |-> "open"]

RequiredMessage == "Title and description are required."

HandleChangeWithoutSpread(f, name, value) == [initialState EXCEPT ![name] = value]

(* setForm({ ...form, [e.target.name]: e.target.value })                    *)
handleChange(f, name, value) == [f EXCEPT ![name] = value]

(* !form.title.trim() || !form.description.trim()                           *)
Invalid(f) == trim(f.title) = <<>> \/ trim(f.description) = <<>>

OnSubmitArgsTrimmed(f) ==
    [made |-> TRUE, form |-> [f EXCEPT !.title = trim(f.title), !.description = trim(f.description)]]

(* onSubmit(form, () => setForm(initialState)): the draft handed over; the  *)
(* second argument is the reset function below.                             *)
OnSubmitArgs(f) == [made |-> TRUE, form |-> f]

ResetFormKeepsStatus(f) == [initialState EXCEPT !.status = f.status]

(* () => setForm(initialState), applied to a form holding draft f.          *)
resetForm(f) == initialState

NoCall == [made |-> FALSE, form |-> initialState]

(* The loading and error props a parent hands to BugForm.                   *)
FormErrorProps == {"", "Test error"}
FormProps == [loading : BOOLEAN, error : FormErrorProps]

SubmitNeverDisabled(props) == FALSE

(* <button type="submit" disabled={loading}>                                *)
SubmitDisabled(props) == props.loading

(* <input name="title" required />, <textarea name="description" required   *)
(* /> in a form without noValidate: a submit button submits only when       *)
(* neither value is missing.                                                *)
checkValidity(f) == f.title # <<>> /\ f.description # <<>>

(* {loading ? 'Submitting...' : 'Submit Bug'}                               *)
SubmitLabel(props) == IF props.loading THEN "Submitting..." ELSE "Submit Bug"

(* {formError && <div role="alert">} {error && <div role="alert">}          *)
FormAlerts(fe, props) ==
    (IF fe # "" THEN {fe} ELSE {}) \cup (IF props.error # "" THEN {props.error} ELSE {})

FormIdle ==
    /\ form = initialState
    /\ formError = ""
    /\ lastCall = NoCall
    /\ callsInStep = 0
    /\ formLast = "mount"
    /\ formProps = [loading |-> FALSE, error |-> ""]
    /\ clearedError = ""

(***************************************************************************)
(* BugList, BugItem, StatusUpdate                                           *)
(***************************************************************************)
(* A record as the list sees it: its identifier and its status.  The list   *)
(* given to BugList holds at most MaxBugs records with distinct ids.        *)
ListIds == {"1", "2", "3"}
MaxBugs == 2

Records == [id : ListIds, status : Statuses]

BugLists ==
    UNION { { b \in [1..n -> Records] : \A i, j \in 1..n : i # j => b[i].id # b[j].id }
            : n \in 0..MaxBugs }

NullProp == "<null>"
ListErrorProps == {"", NullProp, "Failed to fetch bugs"}
ListProps == [loading : BOOLEAN, error : ListErrorProps, bugs : BugLists]

(* Truthiness of a string-or-null prop.                                     *)
Truthy(x) == x \notin {"", NullProp}

LoadingText == "Loading bugs..."
EmptyText == "No bugs reported yet."
ListTitle == "Reported Bugs"

BugItemsSkipFirst(bugs) ==
    [i \in 1..(Len(bugs) - 1) |-> [key |-> bugs[i + 1].id, bug |-> bugs[i + 1]]]

(* bugs.map((bug) => <BugItem key={bug._id} bug={bug} ... />)               *)
BugItems(bugs) == [i \in 1..Len(bugs) |-> [key |-> bugs[i].id, bug |-> bugs[i]]]

BugListErrorFirst(props) ==
    IF Truthy(props.error) THEN [texts |-> {props.error}, items |-> <<>>]
    ELSE IF props.loading THEN [texts |-> {LoadingText}, items |-> <<>>]
    ELSE IF Len(props.bugs) = 0 THEN [texts |-> {EmptyText}, items |-> <<>>]
    ELSE [texts |-> {ListTitle}, items |-> BugItems(props.bugs)]

BugList(props) ==
    IF props.loading THEN [texts |-> {LoadingText}, items |-> <<>>]
    ELSE IF Truthy(props.error) THEN [texts |-> {props.error}, items |-> <<>>]
    ELSE IF Len(props.bugs) = 0 THEN [texts |-> {EmptyText}, items |-> <<>>]
    ELSE [texts |-> {ListTitle}, items |-> BugItems(props.bugs)]

NoListCall == [fn |-> "none", id |-> "", status |-> ""]

(* onClick={() => onDelete(bug._id)}                                        *)
BugItemDelete(bug) == [fn |-> "onDelete", id |-> bug.id, status |-> ""]

(* StatusUpdate: onChange={(e) => onChange(e.target.value)}                 *)
StatusUpdateChange(value) == value

BugItemStatusChangeKeepsCurrent(bug, status) ==
    [fn |-> "onStatusChange", id |-> bug.id, status |-> bug.status]

(* onChange={(status) => onStatusChange(bug._id, status)}                   *)
BugItemStatusChange(bug, status) == [fn |-> "onStatusChange", id |-> bug.id, status |-> status]

ListIdle ==
    LET props == [loading |-> FALSE, error |-> "", bugs |-> <<>>] IN
    /\ listProps = props
    /\ listView = BugList(props)
    /\ listCall = NoListCall
    /\ listLast = "render"

(***************************************************************************)
(* App: its handlers, the calls in flight and the server behind them.       *)
(***************************************************************************)
(* At most MaxCalls calls are outstanding and at most MaxCreated records    *)
(* are created.  The server holds no record, or the record "1", when the    *)
(* App mounts; a created record gets the next id of NewIds.                 *)
MaxCalls == 2
MaxCreated == 1

NewIds == <<"2", "3", "4">>
AppIds == {"1", "2", "3", "4"}

InitialStores == { <<>>, <<[id |-> "1", status |-> "open"]>> }

(* A response: whether it is a 2xx, the message of its body and, for the    *)
(* list request, the records of its body.                                   *)
NoResponse == [ok |-> FALSE, message |-> "", data |-> <<>>]
NotFound == [ok |-> FALSE, message |-> "Bug not found", data |-> <<>>]
InternalServerError == [ok |-> FALSE, message |-> "Internal Server Error", data |-> <<>>]

Without(bugs, id) == SelectSeq(bugs, LAMBDA b : b.id # id)
Has(bugs, id) == \E i \in 1..Len(bugs) : bugs[i].id = id

(* bugController: each handler gives the store it leaves and its response.  *)
getBugs(st) == [store |-> st, resp |-> [ok |-> TRUE, message |-> "", data |-> st]]

createBug(st, id, status) ==
    [store |-> <<[id |-> id, status |-> status]>> \o st,
     resp |-> [ok |-> TRUE, message |-> "", data |-> <<>>]]

updateBug(st, id, status) ==
    IF Has(st, id)
    THEN [store |-> [i \in 1..Len(st) |-> IF st[i].id = id THEN [st[i] EXCEPT !.status = status] ELSE st[i]],
          resp |-> [ok |-> TRUE, message |-> "", data |-> <<>>]]
    ELSE [store |-> st, resp |-> NotFound]

deleteBug(st, id) ==
    IF Has(st, id)
    THEN [store |-> Without(st, id), resp |-> [ok |-> TRUE, message |-> "Bug deleted", data |-> <<>>]]
    ELSE [store |-> st, resp |-> NotFound]

Handle(st, c) ==
    CASE c.op = "fetch" -> getBugs(st)
      [] c.op = "create" -> createBug(st, c.id, c.status)
      [] c.op = "status" -> updateBug(st, c.id, c.status)
      [] c.op = "delete" -> deleteBug(st, c.id)

(* The requests App sends.                                                  *)
Call(op, id, status) == [op |-> op, id |-> id, status |-> status, stage |-> "sent", resp |-> NoResponse]

GenericMessage(op) ==
    CASE op = "fetch" -> "Failed to fetch bugs"
      [] op = "create" -> "Failed to create bug"
      [] op = "delete" -> "Failed to delete bug"
      [] op = "status" -> "Failed to update status"

FailureMessageAlwaysGeneric(op, resp) == GenericMessage(op)

(* err.response?.data?.message || generic                                   *)
FailureMessage(op, resp) == IF resp.message # "" THEN resp.message ELSE GenericMessage(op)

(* setBugs((prev) => prev.filter((b) => b._id !== id))                      *)
DeleteApplied(old, id) == Without(old, id)

StatusAppliedToAll(old, id, status) ==
    [i \in 1..Len(old) |-> [old[i] EXCEPT !.status = status]]

(* setBugs((prev) => prev.map((b) => (b._id === id ? { ...b, status } : b))) *)
StatusApplied(old, id, status) ==
    [i \in 1..Len(old) |-> IF old[i].id = id THEN [old[i] EXCEPT !.status = status] ELSE old[i]]

FinallyKeepsLoading(props) == props

(* finally { setLoading(false) } / finally { setFormLoading(false) }        *)
Finally(props) == [props EXCEPT !.loading = FALSE]

SettledOptimistically(props, c, resp) ==
    IF resp.ok
    THEN CASE c.op = "fetch" -> [props EXCEPT !.bugs = resp.data]
           [] c.op = "delete" -> [props EXCEPT !.bugs = DeleteApplied(props.bugs, c.id)]
           [] c.op = "status" -> [props EXCEPT !.bugs = StatusApplied(props.bugs, c.id, c.status)]
    ELSE [props EXCEPT !.bugs = IF c.op = "delete" THEN DeleteApplied(props.bugs, c.id) ELSE props.bugs]

(* The rest of fetchBugs, handleDeleteBug and handleStatusChange once the   *)
(* awaited call c settled with resp: the try or the catch branch.           *)
Settled(props, c, resp) ==
    IF resp.ok
    THEN CASE c.op = "fetch" -> [props EXCEPT !.bugs = resp.data]
           [] c.op = "delete" -> [props EXCEPT !.bugs = DeleteApplied(props.bugs, c.id)]
           [] c.op = "status" -> [props EXCEPT !.bugs = StatusApplied(props.bugs, c.id, c.status)]
    ELSE [props EXCEPT !.error = FailureMessage(c.op, resp)]

(* setLoading(true); setError('')                                           *)
Started(props) == [props EXCEPT !.loading = TRUE, !.error = ""]

Remove(s, k) == [i \in 1..(Len(s) - 1) |-> IF i < k THEN s[i] ELSE s[i + 1]]

AppIdle ==
    /\ calls = <<>>
    /\ store = <<>>
    /\ created = 0
    /\ appLast = [kind |-> "none", op |-> "", ok |-> FALSE, k |-> 0]
    /\ removed = {}
    /\ anyFailed = FALSE

(***************************************************************************)
(* The store behind the API: the Bug model and the controller, on records   *)
(* with all their fields.                                                   *)
(***************************************************************************)
(* A field the request body does not have.                                  *)
Absent == <<Undefined>>

(* status: null in the JSON body.                                           *)
NullStatus == "<null>"

(* bugSchema: maxlength: 100 (title) and maxlength: 1000 (description)      *)
TitleMaxLength == 100
DescriptionMaxLength == 1000

(* 'a'.repeat(n)                                                            *)
Repeat(n) == [i \in 1..n |-> "a"]

(* The request bodies: every combination of values no validator of the     *)
(* schema turns down; a body of accepted values with one value that a       *)
(* validator turns down (empty, blank, too long, outside the enumeration);  *)
(* and the body with both texts empty.                                      *)
BodyTitles == {<<" ", "a">>, Absent}
BodyDescriptions == {<<"a">>, Absent}
BodyStatuses == {"open", "resolved", Undefined, NullStatus}
PlainBody == [title |-> <<" ", "a">>, description |-> <<"a">>, status |-> "open"]
EmptyBody == [title |-> <<>>, description |-> <<>>, status |-> Undefined]
RejectedTitles == {<<>>, Repeat(TitleMaxLength + 1)}
RejectedDescriptions == {<<>>, <<" ">>, Repeat(DescriptionMaxLength + 1)}
RejectedStatuses == {"invalid-status"}
Bodies ==
    [title : BodyTitles, description : BodyDescriptions, status : BodyStatuses]
        \cup {[PlainBody EXCEPT !.title = t] : t \in RejectedTitles}
        \cup {[PlainBody EXCEPT !.description = d] : d \in RejectedDescriptions}
        \cup {[PlainBody EXCEPT !.status = st] : st \in RejectedStatuses}
        \cup {EmptyBody}

(* No mongoose version is fixed by the sources, and the versions differ in  *)
(* two places: whether a key of an update whose value is undefined is       *)
(* removed from the update (6 and later) or stays in it and is written as   *)
(* null (5), and whether the enum validator lets null pass.                 *)
Builds == [omitUndefined : BOOLEAN, enumAllowsNull : BOOLEAN]
AnyBuild == [omitUndefined |-> TRUE, enumAllowsNull |-> TRUE]

(* bugSchema: trim: true                                                    *)
Trimmed(t) == IF t = Absent THEN Absent ELSE trim(t)

(* bugSchema: required: [true, ...], which an empty string does not meet.   *)
Required(t) == t # Absent /\ t # <<>>

(* bugSchema: maxlength, which a value that is not there passes.            *)
MaxLength(n, t) == t = Absent \/ Len(t) <= n

(* bugSchema: enum: ['open', 'in-progress', 'resolved'], which undefined    *)
(* passes and, on some versions, null.                                      *)
Enum(build, s) ==
    \/ s = Undefined
    \/ s = NullStatus /\ build.enumAllowsNull
    \/ s \in Statuses

(* new Bug({ title, description, status }): the setters and the default,    *)
(* which replaces undefined only.                                           *)
NewBugWithoutDefault(body) ==
    [title |-> Trimmed(body.title), description |-> Trimmed(body.description), status |-> body.status]

NewBug(body) ==
    [title |-> Trimmed(body.title),
     description |-> Trimmed(body.description),
     status |-> IF body.status = Undefined THEN "open" ELSE body.status]

(* Document validation, run by save().                                      *)
Validates(build, doc) ==
    /\ Required(doc.title)
    /\ MaxLength(TitleMaxLength, doc.title)
    /\ Required(doc.description)
    /\ MaxLength(DescriptionMaxLength, doc.description)
    /\ Enum(build, doc.status)

(* The update { title, description, status } as it is cast: the setters run *)
(* on the values, and the keys whose value is undefined are removed or      *)
(* kept, as the version has it.                                             *)
UpdateKeys == {"title", "description", "status"}

IsDefined(body, key) ==
    CASE key = "title" -> body.title # Absent
      [] key = "description" -> body.description # Absent
      [] key = "status" -> body.status # Undefined

CastUpdate(build, body) ==
    [keys |-> {key \in UpdateKeys : ~build.omitUndefined \/ IsDefined(body, key)},
     title |-> Trimmed(body.title),
     description |-> Trimmed(body.description),
     status |-> body.status]

(* runValidators: true - the validators of the paths the update sets; they  *)
(* run before the collection is asked for the record.                       *)
UpdateValidates(build, upd) ==
    /\ "title" \in upd.keys =>
          Required(upd.title) /\ MaxLength(TitleMaxLength, upd.title)
    /\ "description" \in upd.keys =>
          Required(upd.description) /\ MaxLength(DescriptionMaxLength, upd.description)
    /\ "status" \in upd.keys => Enum(build, upd.status)

(* The record after $set: a value that is undefined is stored as null.      *)
Updated(rec, upd) ==
    [id |-> rec.id,
     title |-> IF "title" \in upd.keys THEN upd.title ELSE rec.title,
     description |-> IF "description" \in upd.keys THEN upd.description ELSE rec.description,
     status |-> IF "status" \notin upd.keys THEN rec.status
                ELSE IF upd.status = Undefined THEN NullStatus
                ELSE upd.status]

Found(st, id) == SelectSeq(st, LAMBDA b : b.id = id)

NoReply == [code |-> 0, message |-> "", body |-> <<>>]
NotFoundReply == [code |-> 404, message |-> "Bug not found", body |-> <<>>]
ErrorReply == [code |-> 500, message |-> "Internal Server Error", body |-> <<>>]

NoBody == [title |-> Absent, description |-> Absent, status |-> Undefined]
Request(op, id, body) == [op |-> op, id |-> id, body |-> body]

(* Identifiers a request can name: those of records, and one that is no     *)
(* ObjectId, on which the lookup itself fails.                              *)
MalformedIds == {"invalid-id"}
RequestIds == {"1"} \cup {NewIds[n] : n \in 1..MaxCreated} \cup MalformedIds

(* What the collection did for a request: it was not asked ("notCalled":    *)
(* the request failed before), its promise resolved or its promise          *)
(* rejected.                                                                *)
CollectionOutcome(rejects) == IF rejects THEN "rejects" ELSE "resolves"

StoreIdle ==
    /\ request = Request("none", "", NoBody)
    /\ reply = NoReply
    /\ mongoose = AnyBuild
    /\ collection = "idle"

(***************************************************************************)
(* The boundary tree: render(...), rerender(...) and the Try Again buttons. *)
(***************************************************************************)
InitBoundary ==
    /\ \E l \in Layouts, c \in Children :
          LET t == Tree(Constructor, Constructor, FALSE, l, c) IN
          /\ outer = t.outer
          /\ inner = t.inner
          /\ innerMounted = t.innerMounted
          /\ layout = l
          /\ child = c
          /\ screen = ScreenOf(t.out)
          /\ sink = Report({}, t)
          /\ caught = [by |-> t.by, value |-> t.value]
    /\ prev = "none"
    /\ last = "render"
    /\ FormIdle
    /\ ListIdle
    /\ AppIdle
    /\ StoreIdle

(* rerender(<ErrorBoundary>...</ErrorBoundary>) with new children.          *)
Rerender(l, c) ==
    /\ Commit(Tree(outer, inner, innerMounted /\ l = "nested", l, c), l, c, "rerender")
    /\ UNCHANGED notBoundary

(* Click on the outer boundary's Try Again button.                          *)
ResetOuter ==
    /\ outer.hasError
    /\ TryAgain \in screen
    /\ Commit(Tree(handleReset(outer), inner, innerMounted, layout, child),
              layout, child, "resetOuter")
    /\ UNCHANGED notBoundary

(* Click on the inner boundary's Try Again button.                          *)
ResetInner ==
    /\ innerMounted
    /\ inner.hasError
    /\ TryAgain \in screen
    /\ Commit(Tree(outer, handleReset(inner), innerMounted, layout, child),
              layout, child, "resetInner")
    /\ UNCHANGED notBoundary

NextBoundary ==
    \/ \E l \in Layouts, c \in Children : Rerender(l, c)
    \/ ResetOuter
    \/ ResetInner

SpecBoundary == InitBoundary /\ [][NextBoundary]_vars

(***************************************************************************)
(* The form: edits of the three fields, submit, and the caller invoking     *)
(* the reset function it was handed.                                        *)
(***************************************************************************)
BoundaryIdle ==
    LET c == [throws |-> FALSE, value |-> Null, text |-> "Normal content"]
        t == Tree(Constructor, Constructor, FALSE, "direct", c)
    IN /\ outer = t.outer
       /\ inner = t.inner
       /\ innerMounted = t.innerMounted
       /\ layout = "direct"
       /\ child = c
       /\ screen = ScreenOf(t.out)
       /\ sink = {}
       /\ caught = [by |-> t.by, value |-> t.value]
       /\ prev = "none"
       /\ last = "render"

InitForm == BoundaryIdle /\ FormIdle /\ ListIdle /\ AppIdle /\ StoreIdle

(* What handleChange does to BugForm: the edited field gets the value and    *)
(* the validation error is cleared.                                         *)
FormChanged(name, value) ==
    /\ form' = handleChange(form, name, value)
    /\ formError' = ""
    /\ callsInStep' = 0
    /\ formLast' = "change"
    /\ clearedError' = formError
    /\ UNCHANGED lastCall

(* onChange of the title input, the description textarea or the status      *)
(* select.                                                                  *)
HandleChange(name, value) ==
    /\ FormChanged(name, value)
    /\ UNCHANGED formProps
    /\ UNCHANGED notForm

(* What handleSubmit does to BugForm: a blank draft sets the validation     *)
(* error, any other draft is handed to onSubmit.                            *)
FormSubmitted ==
    /\ IF Invalid(form)
       THEN /\ formError' = RequiredMessage
            /\ callsInStep' = 0
            /\ UNCHANGED lastCall
       ELSE /\ lastCall' = OnSubmitArgs(form)
            /\ callsInStep' = 1
            /\ UNCHANGED formError
    /\ formLast' = "submit"
    /\ clearedError' = ""
    /\ UNCHANGED form

(* onSubmit of the form element.                                            *)
HandleSubmit ==
    /\ FormSubmitted
    /\ UNCHANGED formProps
    /\ UNCHANGED notForm

(* The caller invokes the reset function of the latest onSubmit call.       *)
ResetForm ==
    /\ lastCall.made
    /\ form' = resetForm(form)
    /\ callsInStep' = 0
    /\ formLast' = "reset"
    /\ clearedError' = ""
    /\ UNCHANGED <<formError, lastCall, formProps>>
    /\ UNCHANGED notForm

(* A click on the submit button that fires no submit event.                 *)
FormClickBlocked(why) ==
    /\ formLast' = why
    /\ callsInStep' = 0
    /\ clearedError' = ""
    /\ UNCHANGED <<form, formError, lastCall>>

(* A click on the submit button: nothing happens while it is disabled or    *)
(* while a required field is empty, otherwise the form's submit event runs  *)
(* handleSubmit.                                                            *)
ClickSubmit ==
    IF SubmitDisabled(formProps)
    THEN /\ FormClickBlocked("clickDisabled")
         /\ UNCHANGED formProps
         /\ UNCHANGED notForm
    ELSE IF ~checkValidity(form)
    THEN /\ FormClickBlocked("clickInvalid")
         /\ UNCHANGED formProps
         /\ UNCHANGED notForm
    ELSE HandleSubmit

(* The parent renders the form again with other props.                      *)
SetFormProps(props) ==
    /\ formProps' = props
    /\ formLast' = "props"
    /\ callsInStep' = 0
    /\ clearedError' = ""
    /\ UNCHANGED <<form, formError, lastCall>>
    /\ UNCHANGED notForm

NextForm ==
    \/ \E value \in Titles : HandleChange("title", value)
    \/ \E value \in Descriptions : HandleChange("description", value)
    \/ \E value \in Statuses : HandleChange("status", value)
    \/ HandleSubmit
    \/ ResetForm

SpecForm == InitForm /\ [][NextForm]_vars

(***************************************************************************)
(* The form under a parent that changes its loading and error props; the    *)
(* user types one of a few sample texts and clicks the submit button.       *)
(***************************************************************************)
SampleTexts == {<<>>, <<" ">>, <<"a">>}

NextFormProps ==
    \/ \E value \in SampleTexts : HandleChange("title", value)
    \/ \E value \in SampleTexts : HandleChange("description", value)
    \/ \E value \in Statuses : HandleChange("status", value)
    \/ ClickSubmit
    \/ ResetForm
    \/ \E props \in FormProps : SetFormProps(props)

SpecFormProps == InitForm /\ [][NextFormProps]_vars

(***************************************************************************)
(* The list: rendered with props, and the controls of its items used.       *)
(***************************************************************************)
InitList ==
    /\ BoundaryIdle
    /\ FormIdle
    /\ AppIdle
    /\ StoreIdle
    /\ \E props \in ListProps :
          /\ listProps = props
          /\ listView = BugList(props)
    /\ listCall = NoListCall
    /\ listLast = "render"

(* render(<BugList {...props} />) again with other props.                   *)
RenderList(props) ==
    /\ listProps' = props
    /\ listView' = BugList(props)
    /\ listCall' = NoListCall
    /\ listLast' = "render"
    /\ UNCHANGED notList

(* Click on the Delete button of the i-th rendered item.                    *)
ClickDelete(i) ==
    /\ i \in 1..Len(listView.items)
    /\ listCall' = BugItemDelete(listView.items[i].bug)
    /\ listLast' = "delete"
    /\ UNCHANGED <<listProps, listView>>
    /\ UNCHANGED notList

(* A status picked in the select of the i-th rendered item.                 *)
SelectStatus(i, value) ==
    /\ i \in 1..Len(listView.items)
    /\ listCall' = BugItemStatusChange(listView.items[i].bug, StatusUpdateChange(value))
    /\ listLast' = "status"
    /\ UNCHANGED <<listProps, listView>>
    /\ UNCHANGED notList

NextList ==
    \/ \E props \in ListProps : RenderList(props)
    \/ \E i \in 1..MaxBugs : ClickDelete(i)
    \/ \E i \in 1..MaxBugs, value \in Statuses : SelectStatus(i, value)

SpecList == InitList /\ [][NextList]_vars

(***************************************************************************)
(* App: the form's props are its formLoading and formError, the list's      *)
(* props are its bugs, loading and error.                                   *)
(***************************************************************************)
Step(kind, op, ok, k) == [kind |-> kind, op |-> op, ok |-> ok, k |-> k]

AppTitle == "Bug Tracker"

AppChildrenRaiseError(fe, fProps, lProps) ==
    IF lProps.error # ""
    THEN Raised([kind |-> "Error", text |-> lProps.error])
    ELSE IF fProps.error # ""
    THEN Raised([kind |-> "Error", text |-> fProps.error])
    ELSE Rendered({AppTitle, SubmitLabel(fProps)} \cup FormAlerts(fe, fProps) \cup BugList(lProps).texts)

(* What App hands to its ErrorBoundary: the header, BugForm with            *)
(* formLoading and formError, BugList with bugs, loading and error.  Both   *)
(* components render all the props App gives them.                          *)
AppChildren(fe, fProps, lProps) ==
    Rendered({AppTitle, SubmitLabel(fProps)} \cup FormAlerts(fe, fProps) \cup BugList(lProps).texts)

(* App renders again after a state change: its ErrorBoundary renders the    *)
(* children.                                                                *)
RenderApp ==
    LET b == Boundary(outer, AppChildren(formError', formProps', listProps')) IN
    /\ outer' = b.state
    /\ screen' = ScreenOf(b.out)
    /\ caught' = [by |-> IF b.caught THEN "outer" ELSE "none", value |-> b.value]
    /\ sink' = IF b.caught THEN componentDidCatch(sink, b.value) ELSE sink
    /\ UNCHANGED <<inner, innerMounted, layout, child, prev, last>>
    /\ UNCHANGED storeVars

(* App mounted: the effect has called fetchBugs.                            *)
InitApp ==
    /\ outer = Constructor
    /\ inner = Constructor
    /\ innerMounted = FALSE
    /\ layout = "direct"
    /\ child = [throws |-> FALSE, value |-> Null, text |-> AppTitle]
    /\ sink = {}
    /\ caught = [by |-> "none", value |-> Null]
    /\ prev = "none"
    /\ last = "render"
    /\ form = initialState
    /\ formError = ""
    /\ lastCall = NoCall
    /\ callsInStep = 0
    /\ formLast = "mount"
    /\ formProps = [loading |-> FALSE, error |-> ""]
    /\ clearedError = ""
    /\ listProps = Started([loading |-> FALSE, error |-> "", bugs |-> <<>>])
    /\ listView = BugList(listProps)
    /\ listCall = NoListCall
    /\ listLast = "render"
    /\ calls = <<Call("fetch", "", "")>>
    /\ store \in InitialStores
    /\ created = 0
    /\ appLast = Step("issue", "fetch", FALSE, 1)
    /\ removed = {}
    /\ anyFailed = FALSE
    /\ StoreIdle
    /\ screen = ScreenOf(render(outer, AppChildren(formError, formProps, listProps)))

(* BugForm and BugList rendered again by App: the items made no call in    *)
(* this step and the form made none.                                        *)
ListRendered ==
    /\ listView' = BugList(listProps')
    /\ listCall' = NoListCall
    /\ listLast' = "render"

FormRendered ==
    /\ formLast' = "props"
    /\ callsInStep' = 0
    /\ clearedError' = ""
    /\ UNCHANGED <<form, formError, lastCall>>

(* The user edits a field of the form inside App: BugForm.handleChange.     *)
AppHandleChange(name, value) ==
    /\ FormChanged(name, value)
    /\ UNCHANGED formProps
    /\ UNCHANGED <<listVars, appVars>>
    /\ RenderApp

(* handleCreateBug(bug, resetForm) up to its await.                         *)
HandleCreateBug(bug) ==
    /\ Len(calls) < MaxCalls
    /\ created < MaxCreated
    /\ formProps' = [loading |-> TRUE, error |-> ""]
    /\ calls' = Append(calls, Call("create", NewIds[created + 1], bug.status))
    /\ created' = created + 1
    /\ appLast' = Step("issue", "create", FALSE, Len(calls'))

(* A click on the form's submit button inside App that fires the submit     *)
(* event: handleSubmit rejects a blank draft or hands the draft to          *)
(* handleCreateBug.  While the button is disabled or a required field is    *)
(* empty a click fires no event and nothing changes.                        *)
AppClickSubmit ==
    /\ ~SubmitDisabled(formProps)
    /\ checkValidity(form)
    /\ FormSubmitted
    /\ IF Invalid(form)
       THEN /\ UNCHANGED <<formProps, calls, created, appLast>>
            /\ UNCHANGED listVars
       ELSE /\ HandleCreateBug(form)
            /\ UNCHANGED listProps
            /\ ListRendered
    /\ UNCHANGED <<store, removed, anyFailed>>
    /\ RenderApp

(* Delete clicked on the i-th item shown: handleDeleteBug up to its await.  *)
HandleDeleteBug(i) ==
    /\ i \in 1..Len(listView.items)
    /\ Len(calls) < MaxCalls
    /\ listCall' = BugItemDelete(listView.items[i].bug)
    /\ listLast' = "delete"
    /\ calls' = Append(calls, Call("delete", listCall'.id, ""))
    /\ listProps' = Started(listProps)
    /\ listView' = BugList(listProps')
    /\ appLast' = Step("issue", "delete", FALSE, Len(calls'))
    /\ FormRendered
    /\ UNCHANGED <<formProps, store, created, removed, anyFailed>>
    /\ RenderApp

(* A change event of the select of the i-th item shown: handleStatusChange  *)
(* up to its await.                                                         *)
HandleStatusChange(i, value) ==
    /\ i \in 1..Len(listView.items)
    /\ Len(calls) < MaxCalls
    /\ listCall' = BugItemStatusChange(listView.items[i].bug, StatusUpdateChange(value))
    /\ listLast' = "status"
    /\ calls' = Append(calls, Call("status", listCall'.id, listCall'.status))
    /\ listProps' = Started(listProps)
    /\ listView' = BugList(listProps')
    /\ appLast' = Step("issue", "status", FALSE, Len(calls'))
    /\ FormRendered
    /\ UNCHANGED <<formProps, store, created, removed, anyFailed>>
    /\ RenderApp

(* The server handles the k-th outstanding request.                         *)
Serve(k) ==
    /\ k \in 1..Len(calls)
    /\ calls[k].stage = "sent"
    /\ LET out == Handle(store, calls[k]) IN
          /\ store' = out.store
          /\ calls' = [calls EXCEPT ![k].stage = "served", ![k].resp = out.resp]
          /\ anyFailed' = (anyFailed \/ ~out.resp.ok)
    /\ UNCHANGED <<appLast, removed>>
    /\ UNCHANGED <<created, formVars, listVars, boundaryVars, storeVars>>

(* The server fails on the k-th outstanding request: next(err).             *)
ServeError(k) ==
    /\ k \in 1..Len(calls)
    /\ calls[k].stage = "sent"
    /\ calls' = [calls EXCEPT ![k].stage = "served", ![k].resp = InternalServerError]
    /\ anyFailed' = TRUE
    /\ UNCHANGED removed
    /\ UNCHANGED <<appLast, store, created, formVars, listVars, boundaryVars, storeVars>>

(* Whether the setters a continuation called make React render App again:  *)
(* setBugs gets a new array on every success; setLoading, setError,         *)
(* setFormLoading and setFormError render only when the value they are      *)
(* given differs from the one the state holds.                              *)
AppRenders(resp) ==
    resp.ok \/ listProps' # listProps \/ formProps' # formProps

(* The awaited k-th call settles with resp and its handler runs to its end. *)
(* App, and with it BugForm and BugList, is rendered again only when the    *)
(* handler changed App's state.                                             *)
Deliver(k, resp) ==
    LET c == calls[k] IN
    /\ appLast' = Step("settle", c.op, resp.ok, k)
    /\ anyFailed' = (anyFailed \/ ~resp.ok)
    /\ removed' = IF resp.ok /\ c.op = "delete" THEN removed \cup {c.id} ELSE removed
    /\ UNCHANGED <<store, created>>
    /\ IF c.op = "create"
       THEN /\ IF resp.ok
               THEN /\ form' = resetForm(form)
                    /\ formLast' = "reset"
                    /\ callsInStep' = 0
                    /\ clearedError' = ""
                    /\ UNCHANGED <<formError, lastCall>>
                    /\ listProps' = Started(listProps)
                    /\ calls' = Append(Remove(calls, k), Call("fetch", "", ""))
                    /\ formProps' = Finally(formProps)
               ELSE /\ formProps' = Finally([formProps EXCEPT !.error = FailureMessage(c.op, resp)])
                    /\ calls' = Remove(calls, k)
                    /\ UNCHANGED listProps
                    /\ IF AppRenders(resp)
                       THEN FormRendered
                       ELSE UNCHANGED <<form, formError, lastCall, callsInStep, formLast, clearedError>>
       ELSE /\ listProps' = Finally(Settled(listProps, c, resp))
            /\ calls' = Remove(calls, k)
            /\ UNCHANGED formProps
            /\ IF AppRenders(resp)
               THEN FormRendered
               ELSE UNCHANGED <<form, formError, lastCall, callsInStep, formLast, clearedError>>
    /\ IF AppRenders(resp)
       THEN ListRendered /\ RenderApp
       ELSE UNCHANGED <<listView, listCall, listLast, boundaryVars, storeVars>>

(* The response of the k-th call arrives.                                   *)
Settle(k) ==
    /\ k \in 1..Len(calls)
    /\ calls[k].stage = "served"
    /\ Deliver(k, calls[k].resp)

(* The k-th call fails without a response (request or response lost).      *)
Reject(k) ==
    /\ k \in 1..Len(calls)
    /\ Deliver(k, NoResponse)

(* What the user types into the form's title and description inside App,   *)
(* the status a change event of the form's select carries, and the          *)
(* statuses picked in the selects of the items.                             *)
AppTitles == {<<"a">>}
AppDescriptions == {<<" ">>, <<"a">>}
AppDraftStatuses == {"open"}
AppStatuses == {"open", "resolved"}

NextApp ==
    \/ \E value \in AppTitles : AppHandleChange("title", value)
    \/ \E value \in AppDescriptions : AppHandleChange("description", value)
    \/ \E value \in AppDraftStatuses : AppHandleChange("status", value)
    \/ AppClickSubmit
    \/ \E i \in 1..Len(listView.items) : HandleDeleteBug(i)
    \/ \E i \in 1..Len(listView.items), value \in AppStatuses : HandleStatusChange(i, value)
    \/ \E k \in 1..MaxCalls : Serve(k)
    \/ \E k \in 1..MaxCalls : ServeError(k)
    \/ \E k \in 1..MaxCalls : Settle(k)
    \/ \E k \in 1..MaxCalls : Reject(k)

SpecApp == InitApp /\ [][NextApp]_vars

(***************************************************************************)
(* The API called directly: requests handled one at a time by the           *)
(* controller on the Bug collection.                                        *)
(***************************************************************************)
FirstBug == [id |-> "1", title |-> <<"a", "a">>, description |-> <<"a">>, status |-> "open"]

InitStore ==
    /\ BoundaryIdle
    /\ FormIdle
    /\ ListIdle
    /\ calls = <<>>
    /\ store \in {<<>>, <<FirstBug>>}
    /\ created = 0
    /\ appLast = [kind |-> "none", op |-> "", ok |-> FALSE, k |-> 0]
    /\ removed = {}
    /\ anyFailed = FALSE
    /\ request = Request("none", "", NoBody)
    /\ reply = NoReply
    /\ mongoose \in Builds
    /\ collection = "idle"

Untouched ==
    UNCHANGED <<boundaryVars, formVars, listVars, calls, appLast, removed, anyFailed, mongoose>>

(* GET /api/bugs                                                            *)
GetBugs(rejects) ==
    /\ request' = Request("getBugs", "", NoBody)
    /\ collection' = CollectionOutcome(rejects)
    /\ reply' = IF rejects THEN ErrorReply
                ELSE [code |-> 200, message |-> "", body |-> store]
    /\ UNCHANGED <<store, created>>
    /\ Untouched

(* GET /api/bugs/:id                                                        *)
GetBug(id, rejects) ==
    /\ request' = Request("getBug", id, NoBody)
    /\ IF id \in MalformedIds
       THEN collection' = "notCalled" /\ reply' = ErrorReply
       ELSE /\ collection' = CollectionOutcome(rejects)
            /\ reply' = IF rejects THEN ErrorReply
                        ELSE IF Found(store, id) = <<>> THEN NotFoundReply
                        ELSE [code |-> 200, message |-> "", body |-> Found(store, id)]
    /\ UNCHANGED <<store, created>>
    /\ Untouched

(* POST /api/bugs                                                           *)
CreateBug(body, rejects) ==
    LET bug == NewBug(body) IN
    /\ created < MaxCreated
    /\ request' = Request("createBug", "", body)
    /\ IF ~Validates(mongoose, bug)
       THEN /\ collection' = "notCalled"
            /\ reply' = ErrorReply
            /\ UNCHANGED <<store, created>>
       ELSE IF rejects
       THEN /\ collection' = "rejects"
            /\ reply' = ErrorReply
            /\ UNCHANGED <<store, created>>
       ELSE LET saved == [id |-> NewIds[created + 1], title |-> bug.title,
                          description |-> bug.description, status |-> bug.status]
            IN /\ collection' = "resolves"
               /\ store' = <<saved>> \o store
               /\ created' = created + 1
               /\ reply' = [code |-> 201, message |-> "", body |-> <<saved>>]
    /\ Untouched

(* PUT /api/bugs/:id                                                        *)
UpdateBug(id, body, rejects) ==
    LET upd == CastUpdate(mongoose, body) IN
    /\ request' = Request("updateBug", id, body)
    /\ IF id \in MalformedIds \/ ~UpdateValidates(mongoose, upd)
       THEN collection' = "notCalled" /\ reply' = ErrorReply /\ UNCHANGED store
       ELSE IF rejects
       THEN collection' = "rejects" /\ reply' = ErrorReply /\ UNCHANGED store
       ELSE IF Found(store, id) = <<>>
       THEN collection' = "resolves" /\ reply' = NotFoundReply /\ UNCHANGED store
       ELSE /\ collection' = "resolves"
            /\ store' = [i \in 1..Len(store) |->
                            IF store[i].id = id THEN Updated(store[i], upd) ELSE store[i]]
            /\ reply' = [code |-> 200, message |-> "", body |-> Found(store', id)]
    /\ UNCHANGED created
    /\ Untouched

(* DELETE /api/bugs/:id                                                     *)
DeleteBug(id, rejects) ==
    LET out == deleteBug(store, id) IN
    /\ request' = Request("deleteBug", id, NoBody)
    /\ IF id \in MalformedIds
       THEN collection' = "notCalled" /\ reply' = ErrorReply /\ UNCHANGED store
       ELSE IF rejects
       THEN collection' = "rejects" /\ reply' = ErrorReply /\ UNCHANGED store
       ELSE /\ collection' = "resolves"
            /\ store' = out.store
            /\ reply' = IF out.resp.ok
                        THEN [code |-> 200, message |-> out.resp.message, body |-> <<>>]
                        ELSE NotFoundReply
    /\ UNCHANGED created
    /\ Untouched

NextStore ==
    \/ \E rejects \in BOOLEAN : GetBugs(rejects)
    \/ \E id \in RequestIds, rejects \in BOOLEAN : GetBug(id, rejects)
    \/ \E body \in Bodies, rejects \in BOOLEAN : CreateBug(body, rejects)
    \/ \E id \in RequestIds, body \in Bodies, rejects \in BOOLEAN : UpdateBug(id, body, rejects)
    \/ \E id \in RequestIds, rejects \in BOOLEAN : DeleteBug(id, rejects)

SpecStore == InitStore /\ [][NextStore]_vars

(***************************************************************************)
(* Properties of the boundary tree (SpecBoundary).                          *)
(***************************************************************************)
Failed(b) == b.hasError

(* The readable text a raised value carries: the message of an Error or of  *)
(* a plain object, the characters of a string; none for anything else.      *)
ReadableText(v) ==
    IF v.kind \in {"Error", "object", "string"} /\ v.text \notin {Undefined, ""}
    THEN v.text
    ELSE GenericDescription

(* C1: after Try Again on a Failed boundary followed by a re-render with    *)
(* children that render, the boundary is Normal and shows those children    *)
(* and no fallback.                                                         *)
C1_ResetThenRerenderRecovers ==
    /\ (prev = "resetOuter" /\ last = "rerender" /\ layout = "direct" /\ ~child.throws)
          => (~Failed(outer) /\ child.text \in screen /\ Heading \notin screen)
    /\ (prev = "resetInner" /\ last = "rerender" /\ layout = "nested" /\ ~child.throws)
          => (innerMounted /\ ~Failed(inner) /\ child.text \in screen /\ Heading \notin screen)

(* C2: whatever value a rendered child raises, the nearest boundary above   *)
(* it is Failed holding exactly that value, the document shows the heading  *)
(* and the Try Again control, and nothing is raised past that boundary.     *)
C2_RaisedValueEntersFailed ==
    /\ caught.by = "outer" => (Failed(outer) /\ outer.error = caught.value)
    /\ caught.by = "inner" =>
          (innerMounted /\ Failed(inner) /\ inner.error = caught.value /\ ~Failed(outer))
    /\ child.throws =>
          /\ Failed(outer) \/ (innerMounted /\ Failed(inner))
          /\ Heading \in screen
          /\ TryAgain \in screen

C2_Witness ==
    /\ caught.by = "outer"
    /\ caught.value.kind = "undefined"
    /\ Failed(outer)
    /\ outer.error = caught.value
    /\ Heading \in screen

(* C3: the description a Failed boundary shows is the readable text of the  *)
(* value it stores, the characters of a thrown string included, and the     *)
(* generic sentence only when the value carries no readable text.           *)
C3_DescriptionIsReadableText ==
    /\ Failed(outer) => ReadableText(outer.error) \in screen
    /\ (innerMounted /\ Failed(inner)) => ReadableText(inner.error) \in screen

(* C4: a boundary leaves Failed only by its own Try Again; a re-render      *)
(* while Failed, whatever the new children, keeps hasError, the stored      *)
(* value and the fallback.                                                  *)
C4_OnlyResetLeavesFailed ==
    [][ /\ (Failed(outer) /\ ~Failed(outer')) => last' = "resetOuter"
        /\ (innerMounted /\ Failed(inner) /\ innerMounted' /\ ~Failed(inner'))
              => last' = "resetInner"
        /\ (last' = "rerender" /\ Failed(outer))
              => (outer' = outer /\ screen' = Fallback(outer.error))
        /\ (last' = "rerender" /\ innerMounted /\ Failed(inner) /\ layout' = "nested")
              => (innerMounted' /\ inner' = inner /\ Fallback(inner.error) \subseteq screen')
      ]_vars

C4_Witness ==
    /\ last = "rerender"
    /\ Failed(outer)
    /\ ~child.throws
    /\ screen = Fallback(outer.error)

(* C5: a value raised under the inner boundary makes only the inner         *)
(* boundary Failed: the outer one stays Normal and its sibling content      *)
(* stays in the document next to the inner fallback.  The outer boundary    *)
(* catches only what is raised directly under it, and then its fallback is  *)
(* all the document shows.                                                  *)
C5_InnerFailureStaysInner ==
    /\ caught.by = "inner" =>
          /\ layout = "nested"
          /\ innerMounted /\ Failed(inner) /\ ~Failed(outer)
          /\ OuterContent \in screen
          /\ Fallback(inner.error) \subseteq screen
    /\ caught.by = "outer" =>
          /\ layout = "direct"
          /\ Failed(outer)
          /\ screen = Fallback(outer.error)
    /\ (layout = "nested" /\ child.throws /\ ~Failed(outer)) =>
          (innerMounted /\ Failed(inner) /\ OuterContent \in screen)

C5_Witness ==
    /\ caught.by = "inner"
    /\ child.throws
    /\ ~Failed(outer)
    /\ OuterContent \in screen
    /\ Heading \in screen

(* C6, as the test states it: a first render of the outer boundary around   *)
(* 'Outer content' and an inner boundary whose child raises shows the       *)
(* heading and does not show 'Outer content'.                               *)
C6_SiblingNotRendered ==
    (last = "render" /\ layout = "nested" /\ child.throws)
        => (Heading \in screen /\ OuterContent \notin screen)

(* C7: every value a boundary catches is reported to the sink at that       *)
(* transition.                                                              *)
C7_FailureIsReported ==
    caught.by # "none" => caught.value \in sink

(***************************************************************************)
(* Properties of the form (SpecForm).                                       *)
(***************************************************************************)
NonBlank(t) == \E k \in 1..Len(t) : t[k] # " "

(* C8: a click on the enabled submit button with a draft whose title or     *)
(* description is empty or all whitespace sets the validation error and     *)
(* calls onSubmit zero times.                                               *)
C8_BlankDraftIsRejected ==
    [][ (/\ ClickSubmit
         /\ ~SubmitDisabled(formProps)
         /\ (~NonBlank(form.title) \/ ~NonBlank(form.description)))
           => /\ formError' = "Title and description are required."
              /\ callsInStep' = 0
              /\ lastCall' = lastCall
      ]_vars

(* C9: a submit of a draft with a non-blank title and description calls     *)
(* onSubmit once with the draft as it stands, untrimmed, and leaves the     *)
(* draft as it was.                                                         *)
C9_ValidDraftIsHandedOver ==
    [][ (formLast' = "submit" /\ NonBlank(form.title) /\ NonBlank(form.description))
           => /\ callsInStep' = 1
              /\ lastCall' = [made |-> TRUE, form |-> form]
              /\ form' = form
      ]_vars

C9_Witness ==
    /\ formLast = "submit"
    /\ callsInStep = 1
    /\ lastCall.made
    /\ lastCall.form = [title |-> <<" ", "a">>, description |-> <<"a">>, status |-> "in-progress"]
    /\ form = lastCall.form

(* C10: invoking the reset function handed to onSubmit sets the draft to    *)
(* {title: '', description: '', status: 'open'} whatever it held.           *)
C10_ResetRestoresInitialDraft ==
    [][ formLast' = "reset"
           => form' = [title |-> <<>>, description |-> <<>>, status |-> "open"]
      ]_vars

C10_Witness ==
    /\ formLast = "reset"
    /\ lastCall.made
    /\ lastCall.form.status = "resolved"
    /\ form = [title |-> <<>>, description |-> <<>>, status |-> "open"]

(* C11: while loading is true the submit control is disabled and labelled  *)
(* 'Submitting...', and no step taken in that state calls onSubmit.         *)
C11_NoSubmitWhileLoading ==
    [][ formProps.loading =>
          /\ SubmitDisabled(formProps)
          /\ SubmitLabel(formProps) = "Submitting..."
          /\ callsInStep' = 0
          /\ lastCall' = lastCall
      ]_vars

C11_Witness ==
    /\ formLast = "clickDisabled"
    /\ formProps.loading
    /\ NonBlank(form.title) /\ NonBlank(form.description)
    /\ callsInStep = 0
    /\ ~lastCall.made

(* C12: after an edit of a field, a non-empty error prop is no longer       *)
(* among the messages the form shows.                                       *)
C12_EditHidesErrorProp ==
    (formLast = "change" /\ formProps.error # "")
        => formProps.error \notin FormAlerts(formError, formProps)

(* C13: an edit of the title, the description or the status clears the     *)
(* local validation error, gives the edited field the entered value and     *)
(* leaves the other two fields as they were.                                *)
C13_EditClearsValidationError ==
    [][ /\ \A value \in Titles : HandleChange("title", value) =>
              /\ formError' = ""
              /\ form' = [title |-> value, description |-> form.description, status |-> form.status]
        /\ \A value \in Descriptions : HandleChange("description", value) =>
              /\ formError' = ""
              /\ form' = [title |-> form.title, description |-> value, status |-> form.status]
        /\ \A value \in Statuses : HandleChange("status", value) =>
              /\ formError' = ""
              /\ form' = [title |-> form.title, description |-> form.description, status |-> value]
      ]_vars

C13_Witness ==
    /\ formLast = "change"
    /\ clearedError = "Title and description are required."
    /\ formError = ""
    /\ form = [title |-> <<" ", "a">>, description |-> <<>>, status |-> "resolved"]

(***************************************************************************)
(* Properties of the list (SpecList).                                       *)
(***************************************************************************)
LoadingShown == LoadingText \in listView.texts
ErrorShown == Truthy(listProps.error) /\ listProps.error \in listView.texts
EmptyShown == EmptyText \in listView.texts
ListShown == ListTitle \in listView.texts

(* C14: the list shows exactly one of the loading view, the error view,     *)
(* the empty-state message and the rendered list, chosen in that order of   *)
(* precedence; no item is shown while loading or with an error.             *)
C14_OneViewByPrecedence ==
    LET expected ==
            IF listProps.loading THEN "loading"
            ELSE IF Truthy(listProps.error) THEN "error"
            ELSE IF Len(listProps.bugs) = 0 THEN "empty"
            ELSE "list"
    IN /\ LoadingShown <=> expected = "loading"
       /\ ErrorShown <=> expected = "error"
       /\ EmptyShown <=> expected = "empty"
       /\ ListShown <=> expected = "list"
       /\ Cardinality(listView.texts) = 1
       /\ (listProps.loading \/ Truthy(listProps.error)) => listView.items = <<>>

C14_Witness ==
    /\ listProps.loading
    /\ Truthy(listProps.error)
    /\ Len(listProps.bugs) = 2
    /\ listView = [texts |-> {"Loading bugs..."}, items |-> <<>>]

(* C15: with loading true and a non-empty error the error is shown and      *)
(* 'Loading bugs...' is not.                                                *)
C15_ErrorBeforeLoading ==
    (listProps.loading /\ Truthy(listProps.error))
        => (ErrorShown /\ ~LoadingShown)

(* C16: without loading and error, an empty record set shows the            *)
(* empty-state message and no item; a non-empty one shows one item per      *)
(* record, keyed by the record's id, in the order given.                    *)
C16_OneItemPerRecord ==
    (~listProps.loading /\ ~Truthy(listProps.error)) =>
        IF Len(listProps.bugs) = 0
        THEN EmptyShown /\ listView.items = <<>>
        ELSE /\ ~EmptyShown
             /\ Len(listView.items) = Len(listProps.bugs)
             /\ \A i \in 1..Len(listProps.bugs) :
                   /\ listView.items[i].key = listProps.bugs[i].id
                   /\ listView.items[i].bug = listProps.bugs[i]

C16_Witness ==
    /\ ~listProps.loading
    /\ ~Truthy(listProps.error)
    /\ Len(listProps.bugs) = 2
    /\ listView.items[1].key = "2"
    /\ listView.items[2].key = "1"

(* C17: Delete on an item calls onDelete with that record's id, a status    *)
(* picked on an item calls onStatusChange with that record's id and the     *)
(* picked status, and neither changes the records given to the list.        *)
C17_ItemActionsDelegate ==
    [][ /\ \A i \in 1..MaxBugs : ClickDelete(i) =>
              /\ listCall' = [fn |-> "onDelete", id |-> listProps.bugs[i].id, status |-> ""]
              /\ listProps' = listProps
              /\ listView' = listView
        /\ \A i \in 1..MaxBugs, value \in Statuses : SelectStatus(i, value) =>
              /\ listCall' = [fn |-> "onStatusChange", id |-> listProps.bugs[i].id, status |-> value]
              /\ listProps' = listProps
              /\ listView' = listView
      ]_vars

C17_Witness ==
    /\ listLast = "status"
    /\ Len(listProps.bugs) = 2
    /\ listProps.bugs[2] = [id |-> "3", status |-> "open"]
    /\ listCall = [fn |-> "onStatusChange", id |-> "3", status |-> "resolved"]
    /\ listView.items[2].bug.status = "open"

(***************************************************************************)
(* Properties of App (SpecApp).                                             *)
(***************************************************************************)
loading == listProps.loading
formLoading == formProps.loading

(* C18: fetch, delete and status change set loading, and create sets        *)
(* formLoading, before their call is issued; the flag is false after the    *)
(* call settled, with or without success; with no call left both flags are  *)
(* false.                                                                   *)
C18_BusyFlagsAroundCalls ==
    [][ /\ (AppClickSubmit /\ ~Invalid(form)) =>
              formLoading' /\ calls'[Len(calls')].op = "create"
        /\ \A i \in 1..Len(listView.items) : HandleDeleteBug(i) =>
              loading' /\ calls'[Len(calls')].op = "delete"
        /\ \A i \in 1..Len(listView.items), value \in AppStatuses : HandleStatusChange(i, value) =>
              loading' /\ calls'[Len(calls')].op = "status"
        /\ \A k \in 1..Len(calls) : (Settle(k) \/ Reject(k)) =>
              IF calls[k].op = "create"
              THEN /\ ~formLoading'
                   /\ Len(calls') = Len(calls) =>
                          loading' /\ calls'[Len(calls')] = Call("fetch", "", "")
              ELSE ~loading'
        /\ calls' = <<>> => (~loading' /\ ~formLoading')
      ]_vars

C18_Witness ==
    /\ calls = <<>>
    /\ ~loading
    /\ ~formLoading
    /\ created = 1
    /\ formProps.error = "Failed to create bug"
    /\ listProps.error = "Failed to delete bug"
    /\ appLast.kind = "settle"

(* C19: the local list changes only when a call settles with success; a     *)
(* failed fetch, delete or status change leaves it as it was and sets the   *)
(* list error to the message of the response, or to the operation's         *)
(* generic message when there is none.                                      *)
C19_FailureLeavesListAlone ==
    [][ /\ listProps'.bugs # listProps.bugs =>
              \E k \in 1..Len(calls) : Settle(k) /\ calls[k].resp.ok
        /\ \A k \in 1..Len(calls) :
              calls[k].op \in {"fetch", "delete", "status"} =>
                 /\ (Settle(k) /\ ~calls[k].resp.ok) =>
                       /\ listProps'.bugs = listProps.bugs
                       /\ listProps'.error = calls[k].resp.message
                       /\ listProps'.error \in {"Bug not found", "Internal Server Error"}
                 /\ Reject(k) =>
                       /\ listProps'.bugs = listProps.bugs
                       /\ listProps'.error =
                             CASE calls[k].op = "fetch" -> "Failed to fetch bugs"
                               [] calls[k].op = "delete" -> "Failed to delete bug"
                               [] calls[k].op = "status" -> "Failed to update status"
      ]_vars

C19_Witness ==
    /\ appLast = [kind |-> "settle", op |-> "status", ok |-> FALSE, k |-> 1]
    /\ listProps.error = "Bug not found"
    /\ listProps.bugs = <<[id |-> "2", status |-> "open"], [id |-> "1", status |-> "open"]>>
    /\ store = <<[id |-> "2", status |-> "open"]>>

(* C20: a successful status-change response sets the status of its own      *)
(* record in the local list to the status of its call and leaves every      *)
(* other record as it was, whatever else is outstanding; and a record of    *)
(* the local list changes its status only when such a response arrives for  *)
(* it or the list is loaded.  So the response that arrives last for a       *)
(* record decides the status shown for it.                                  *)
C20_StatusChangesIndependent ==
    [][ /\ \A k \in 1..Len(calls) :
              (calls[k].op = "status" /\ Settle(k) /\ calls[k].resp.ok) =>
                 /\ Len(listProps'.bugs) = Len(listProps.bugs)
                 /\ \A i \in 1..Len(listProps.bugs) :
                       listProps'.bugs[i] =
                          IF listProps.bugs[i].id = calls[k].id
                          THEN [listProps.bugs[i] EXCEPT !.status = calls[k].status]
                          ELSE listProps.bugs[i]
        /\ \A i \in 1..Len(listProps.bugs), j \in 1..Len(listProps'.bugs) :
              (listProps.bugs[i].id = listProps'.bugs[j].id
                  /\ listProps.bugs[i].status # listProps'.bugs[j].status) =>
                 \E k \in 1..Len(calls) :
                    /\ Settle(k)
                    /\ calls[k].resp.ok
                    /\ \/ calls[k].op = "fetch"
                       \/ /\ calls[k].op = "status"
                          /\ calls[k].id = listProps'.bugs[j].id
                          /\ calls[k].status = listProps'.bugs[j].status
      ]_vars

C20_Witness ==
    /\ appLast = [kind |-> "settle", op |-> "status", ok |-> TRUE, k |-> 2]
    /\ Len(calls) = 1
    /\ calls[1].op = "status"
    /\ calls[1].id = "1"
    /\ calls[1].status = "resolved"
    /\ listProps.bugs = <<[id |-> "2", status |-> "resolved"], [id |-> "1", status |-> "open"]>>
    /\ store = <<[id |-> "2", status |-> "resolved"], [id |-> "1", status |-> "resolved"]>>

(* C21: a failed fetch, create, delete or status change never puts App's    *)
(* ErrorBoundary into Failed: the failure ends as a message in error or     *)
(* formError and the boundary is still Normal, showing its children.        *)
C21_FailuresStayOutOfBoundary ==
    /\ ~Failed(outer)
    /\ Heading \notin screen
    /\ (appLast.kind = "settle" /\ ~appLast.ok) =>
          IF appLast.op = "create"
          THEN formProps.error # "" /\ formProps.error \in screen
          ELSE listProps.error # "" /\ (~loading => listProps.error \in screen)

C21_Witness ==
    /\ appLast = [kind |-> "settle", op |-> "fetch", ok |-> FALSE, k |-> 1]
    /\ listProps.error = "Internal Server Error"
    /\ formProps.error = "Failed to create bug"
    /\ ~Failed(outer)
    /\ screen = {"Bug Tracker", "Submit Bug", "Failed to create bug", "Internal Server Error"}

(***************************************************************************)
(* Properties of the store (SpecStore).                                     *)
(***************************************************************************)
Blank(t) == t = Absent \/ trim(t) = <<>>

StoreInvariant ==
    /\ \A i \in 1..Len(store) :
          /\ store[i].status \in {"open", "in-progress", "resolved"}
          /\ ~Blank(store[i].title)
          /\ ~Blank(store[i].description)
    /\ \A i, j \in 1..Len(store) : i # j => store[i].id # store[j].id

(* A create or an update the store must not accept.                         *)
BreaksCreate(body) ==
    \/ Blank(body.title)
    \/ Blank(body.description)
    \/ body.status \notin {"open", "in-progress", "resolved", Undefined}

BreaksUpdate(body) ==
    \/ body.title # Absent /\ Blank(body.title)
    \/ body.description # Absent /\ Blank(body.description)
    \/ body.status \notin {"open", "in-progress", "resolved", Undefined}

(* C22: over every sequence of create, update and delete calls each stored  *)
(* record has a status of the enumeration, a title and a description that   *)
(* are not blank, and an id of its own; a call that would break this is     *)
(* rejected and leaves the store as it was.                                 *)
C22_StoreInvariant ==
    /\ []StoreInvariant
    /\ [][ /\ (request'.op = "createBug" /\ BreaksCreate(request'.body)) =>
                 (store' = store /\ reply'.code = 500)
           /\ (request'.op = "updateBug" /\ BreaksUpdate(request'.body)) =>
                 (store' = store /\ reply'.code = 500)
         ]_vars

(* C23: fetch-one, update and delete on an id no stored record has answer   *)
(* 404 'Bug not found' and leave the store as it was; delete on an id a     *)
(* record has removes exactly that record and answers 'Bug deleted'.        *)
C23_UnknownIdIsNotFound ==
    [][ /\ (request'.op \in {"getBug", "updateBug"} /\ ~Has(store, request'.id)) =>
              (reply' = NotFoundReply /\ store' = store)
        /\ request'.op = "deleteBug" =>
              IF Has(store, request'.id)
              THEN /\ store' = SelectSeq(store, LAMBDA b : b.id # request'.id)
                   /\ Len(store') = Len(store) - 1
                   /\ reply'.code = 200
                   /\ reply'.message = "Bug deleted"
              ELSE reply' = NotFoundReply /\ store' = store
      ]_vars

(* A body of a create with valid fields: a title and a description that    *)
(* are not blank and within the caps once trimmed, a status of the          *)
(* enumeration or none.                                                     *)
ValidCreate(body) ==
    /\ ~Blank(body.title)
    /\ Len(trim(body.title)) <= 100
    /\ ~Blank(body.description)
    /\ Len(trim(body.description)) <= 1000
    /\ body.status \in {"open", "in-progress", "resolved", Undefined}

(* What create does with a body with valid fields when it is accepted.      *)
CreateAdds(body) ==
    /\ Len(store') = Len(store) + 1
    /\ Tail(store') = store
    /\ store'[1].title = trim(body.title)
    /\ store'[1].description = trim(body.description)
    /\ store'[1].status = (IF body.status = Undefined THEN "open" ELSE body.status)
    /\ ~Has(store, store'[1].id)
    /\ reply' = [code |-> 201, message |-> "", body |-> <<store'[1]>>]

CreateRejects ==
    /\ store' = store
    /\ reply' = [code |-> 500, message |-> "Internal Server Error", body |-> <<>>]

(* C24: create with a missing or empty title or description adds no record  *)
(* and answers with the server failure, not 201; create with valid fields   *)
(* adds exactly one record, with status 'open' when status is omitted, and  *)
(* answers 201 with that record.                                            *)
C24_CreateValidates ==
    [][ request'.op = "createBug" =>
           LET body == request'.body IN
           IF body.title \in {Absent, <<>>} \/ body.description \in {Absent, <<>>}
           THEN CreateRejects
           ELSE ValidCreate(body) => CreateAdds(body)
      ]_vars

(* C24, amended: create with a missing or empty title or description adds   *)
(* no record and answers with the server failure; create with valid fields  *)
(* adds exactly one record, with status 'open' when status is omitted, and  *)
(* answers 201 with it when the collection accepts the save, and adds no    *)
(* record and answers with the server failure when the save is rejected.    *)
C24_CreateValidatesAndSaves ==
    [][ request'.op = "createBug" =>
           LET body == request'.body IN
           IF body.title \in {Absent, <<>>} \/ body.description \in {Absent, <<>>}
           THEN CreateRejects /\ collection' = "notCalled"
           ELSE ValidCreate(body) =>
                   IF collection' = "rejects" THEN CreateRejects
                   ELSE collection' = "resolves" /\ CreateAdds(body)
      ]_vars

C24_Witness ==
    /\ request = [op |-> "createBug", id |-> "",
                  body |-> [title |-> <<" ", "a">>, description |-> <<"a">>, status |-> Undefined]]
    /\ collection = "resolves"
    /\ reply.code = 201
    /\ reply.body = <<[id |-> "2", title |-> <<"a">>, description |-> <<"a">>, status |-> "open"]>>
    /\ store = reply.body \o <<FirstBug>>

(***************************************************************************)
(* Further properties of the boundary tree (SpecBoundary).                  *)
(***************************************************************************)
StringError == [kind |-> "string", text |-> "String error"]
ObjectError == [kind |-> "object", text |-> "Object error"]

(* C25: a boundary that is Failed after a child threw 'String error' and    *)
(* is rendered again, without Try Again, with a child that throws           *)
(* {message: 'Object error'} shows 'Object error' in its fallback.          *)
C25_RerenderShowsNewMessage ==
    [][ ( /\ layout = "direct"
          /\ Failed(outer)
          /\ outer.error = StringError
          /\ last' = "rerender"
          /\ layout' = "direct"
          /\ child' = [throws |-> TRUE, value |-> ObjectError, text |-> ""] )
        => "Object error" \in screen'
      ]_vars

(* C26: Try Again while the current children still raise renders them      *)
(* again and ends with the boundary Failed, holding the value they raise    *)
(* now and showing the fallback; a boundary is never Normal over children   *)
(* that raise.                                                              *)
C26_ResetWithFailingChildren ==
    [][ /\ (last' = "resetOuter" /\ layout = "direct" /\ child.throws) =>
              /\ Failed(outer')
              /\ outer'.error = child.value
              /\ caught' = [by |-> "outer", value |-> child.value]
              /\ screen' = {Heading, Description(child.value), TryAgain}
        /\ (last' = "resetInner" /\ child.throws) =>
              /\ innerMounted'
              /\ Failed(inner')
              /\ inner'.error = child.value
              /\ caught' = [by |-> "inner", value |-> child.value]
        /\ (layout' = "direct" /\ child'.throws) => Failed(outer')
        /\ (innerMounted' /\ child'.throws) => Failed(inner')
      ]_vars

C26_Witness ==
    /\ prev = "rerender"
    /\ last = "resetOuter"
    /\ layout = "direct"
    /\ child = [throws |-> TRUE, value |-> ObjectError, text |-> ""]
    /\ outer = [hasError |-> TRUE, error |-> ObjectError]
    /\ caught = [by |-> "outer", value |-> ObjectError]
    /\ screen = {"Something went wrong.", "Object error", "Try Again"}

(***************************************************************************)
(* Further properties of App (SpecApp).                                     *)
(***************************************************************************)
Draft == [title |-> <<"a">>, description |-> <<"a">>, status |-> "open"]

Fetches(cs) == Len(SelectSeq(cs, LAMBDA c : c.op = "fetch"))

(* C27: the form is reset and the refetch is started only when the POST     *)
(* resolved with success; when it fails the draft is kept, no refetch is    *)
(* issued, the list, its loading and its error are as before, and           *)
(* formError is the failure's message or 'Failed to create bug'.            *)
C27_CreateFlow ==
    [][ /\ \A k \in 1..Len(calls) : calls[k].op = "create" =>
              /\ (Settle(k) /\ calls[k].resp.ok) =>
                    /\ form' = initialState
                    /\ calls' = Append(Remove(calls, k), Call("fetch", "", ""))
                    /\ loading'
              /\ (Settle(k) /\ ~calls[k].resp.ok) =>
                    /\ form' = form
                    /\ calls' = Remove(calls, k)
                    /\ listProps' = listProps
                    /\ formProps'.error = calls[k].resp.message
                    /\ formProps'.error = "Internal Server Error"
              /\ Reject(k) =>
                    /\ form' = form
                    /\ calls' = Remove(calls, k)
                    /\ listProps' = listProps
                    /\ formProps'.error = "Failed to create bug"
        /\ (formLast' = "reset" /\ formLast # "reset") =>
              \E k \in 1..Len(calls) : calls[k].op = "create" /\ Settle(k) /\ calls[k].resp.ok
        /\ Fetches(calls') > Fetches(calls) =>
              \E k \in 1..Len(calls) : calls[k].op = "create" /\ Settle(k) /\ calls[k].resp.ok
      ]_vars

C27_Witness ==
    /\ appLast.kind = "settle"
    /\ appLast.op = "create"
    /\ ~appLast.ok
    /\ form = Draft
    /\ formProps = [loading |-> FALSE, error |-> "Internal Server Error"]
    /\ calls = <<>>
    /\ listProps = [loading |-> FALSE, error |-> "",
                    bugs |-> <<[id |-> "1", status |-> "resolved"]>>]
    /\ store = <<[id |-> "1", status |-> "resolved"]>>

Outstanding(ops) == \E k \in 1..Len(calls) : calls[k].op \in ops

(* C28: while a fetch, delete or status-change call is outstanding the      *)
(* list's loading flag is true.                                             *)
C28_LoadingWhileOutstanding ==
    Outstanding({"fetch", "delete", "status"}) => loading

(* C29: a record App removed from its list after a successful delete is     *)
(* never in the list again, whatever fetches were in flight.                *)
C29_DeletedStaysDeleted ==
    \A id \in removed : ~Has(listProps.bugs, id)

(* C30: with all calls succeeding, once no status-change call is            *)
(* outstanding each record App shows has the status the store holds for it. *)
C30_ShownStatusIsStoredStatus ==
    (~anyFailed /\ ~Outstanding({"status"})) =>
        \A i \in 1..Len(listProps.bugs), j \in 1..Len(store) :
            listProps.bugs[i].id = store[j].id => listProps.bugs[i].status = store[j].status

====
